---- MODULE Spec2Model ----
(***************************************************************************)
(* Model of the detection de-duplication logic of monkey_detector_app.py:  *)
(* FixedMonkeyDetectorGUI (the GUI thread's handlers and the sighting      *)
(* state they own) and ProperDetectionThread (the polling worker whose     *)
(* detection_result signal is delivered to handle_detection through the    *)
(* GUI thread's event queue).                                              *)
(*                                                                         *)
(* Confidences and thresholds are kept in hundredths (0.5 is 50), so the   *)
(* comparisons of the source are comparisons of integers here.             *)
(***************************************************************************)
EXTENDS Integers, Sequences, FiniteSets, TLC

\* ---------------------------------------------------------------- bounds
MaxGap == 3
MaxCount == 2
MaxThreads == 2
MaxQueue == 1
MaxBoxes == 2
MaxTime == 6

\* ------------------------------------------------------ program constants
DefaultGapFrames == 30
DefaultSlider == 50

\* The value of detection_start_time while it is None.
NoTime == -1

\* monkey_detection_gui.py: self.alert_cooldown = 5 and cooldown_spin.setRange(1, 60).
DefaultCooldown == 5
MaxCooldown == 60

\* Gap thresholds the model is run with: small ones and the source's own.
GapValues == (1..MaxGap) \cup {DefaultGapFrames}

\* Values time.time() returns; the code only stores the value it reads.
Times == {0, 1}

\* Slider positions tried by update_confidence (the slider's range is 10..95).
SliderValues == {30, DefaultSlider}

\* Confidences a detector box may carry.
BoxConfs == {DefaultSlider, 60, 90}

\* Commands on the serial line.
NoCmd == "none"
CmdDetected == "MONKEY_DETECTED"
CmdStop == "STOP_ALERT"
CmdStatus == "STATUS"

\* The outcome of a write that raised.
Raised == "raised"

VARIABLES
    model,                 \* self.model is set
    camera,                \* self.camera: "None", "closed" (not opened), "open"
    detection_active,      \* self.detection_active
    arduino,               \* self.arduino is set
    arduino_connected,     \* self.arduino_connected
    confidence_threshold,  \* self.confidence_threshold, in hundredths
    min_gap_frames,        \* self.min_gap_frames
    detection_count,       \* self.detection_count
    monkey_present,        \* self.monkey_present
    detection_start_time,  \* self.detection_start_time (NoTime for None)
    no_detection_frames,   \* self.no_detection_frames
    threads,               \* the ProperDetectionThread objects created so far
    detection_thread,      \* self.detection_thread: 0 while the attribute is unset
    queue,                 \* detection_result signals posted to the GUI thread
    call,                  \* the handler that ran last, with its arguments
    event,                 \* what that handler reported (log line / status text)
    tx,                    \* the outcome of that handler's serial write: NoCmd, the command, Raised
    scan,                  \* observed: the frame a worker has just reduced (NoScan otherwise)
    run,                   \* observed: consecutive detected=False calls since the last detected=True
    edges,                 \* observed: calls in which monkey_present went False -> True
    edgeSeq,               \* observed: the Started/Ended events of the current session, in order
    sess,                  \* observed: the current session's bookkeeping
    twin,                  \* a second copy of the state tracking, run without an Arduino
    mach,                  \* the specified two-state machine, fed the same flags
    alert,                 \* observed: the last alert command written was MONKEY_DETECTED
    trail,                 \* observed: the calls since a start from the fresh state, while
                           \* they follow one of the Scenarios
    pinned,                \* observed: confidence_threshold as the last start_detection found it
    waiting,               \* stop_all is inside detection_thread.wait()
    mdg                    \* the MonkeyDetectionGUI object of monkey_detection_gui.py

gui == <<model, camera, detection_active, arduino, arduino_connected,
         confidence_threshold, min_gap_frames>>
deb == <<detection_count, monkey_present, detection_start_time, no_detection_frames>>
wrk == <<threads, detection_thread, queue>>
obs == <<call, event, tx, scan>>
hist == <<run, edges, edgeSeq, sess, twin, mach, alert, trail, pinned>>
ext == <<waiting, mdg>>
vars == <<gui, deb, wrk, obs, hist, ext>>

ThreadIds == 1..MaxThreads

\* ----------------------------------------------------------------- events
NoEvent == [kind |-> "None", count |-> 0, confidence |-> 0]
Started(n, c) == [kind |-> "Started", count |-> n, confidence |-> c]
Ongoing(c) == [kind |-> "Ongoing", count |-> 0, confidence |-> c]
Ended == [kind |-> "Ended", count |-> 0, confidence |-> 0]
Idle == [kind |-> "Idle", count |-> 0, confidence |-> 0]

\* A handler call as the observer sees it: the handler, its arguments, what
\* time.time() returned to it, and the run of non-detections it came after.
Call(op, d, c, now, gap) ==
    [op |-> op, detected |-> d, confidence |-> c, now |-> now, gap |-> gap]

\* The observer's record of a session (from a start_detection on, as long as
\* only handle_detection calls follow):
\*   seen    a detection was observed,
\*   short   every run of non-detections after the first detection was shorter
\*           than min_gap_frames,
\*   grown   by how much detection_count grew,
\*   linked  the Arduino was connected at the start and no write has failed,
\*   alerts  how many MONKEY_DETECTED commands were written,
\*   stale   monkey_present was still True when the session was started.
\* Once `short` is lost the record is frozen (OverlongSession), and alerts are
\* counted only while `linked`.
NoSession == [open |-> FALSE, seen |-> FALSE, short |-> TRUE, grown |-> 0,
              linked |-> FALSE, alerts |-> 0, stale |-> FALSE]
OverlongSession == [open |-> TRUE, seen |-> TRUE, short |-> FALSE, grown |-> 0,
                    linked |-> FALSE, alerts |-> 0, stale |-> FALSE]

\* Two sequences of `detected` flags fed to handle_detection from the fresh state.
ReappearAfterGap == <<TRUE, TRUE, FALSE, FALSE, FALSE, TRUE>>
FlickerThenLeave == <<TRUE, FALSE, FALSE, TRUE, FALSE, FALSE, FALSE, FALSE>>
Scenarios == {ReappearAfterGap, FlickerThenLeave}

IsPrefix(p, q) == Len(p) <= Len(q) /\ \A i \in 1..Len(p) : p[i] = q[i]

\* No frame was reduced by the last step.
NoScan == [boxes |-> <<>>, threshold |-> 0, queued |-> 0]

OffTrail == [on |-> FALSE, inputs |-> <<>>, events |-> <<>>]
FreshTrail == [on |-> TRUE, inputs |-> <<>>, events |-> <<>>]

\* Values the cooldown spin box is set to.
CooldownValues == {1, 2, DefaultCooldown}

\* time.time() when the MonkeyDetectionGUI object is constructed: seconds since
\* 1970, far above every cooldown; the clock is followed for MaxTime seconds.
Epoch == MaxCooldown + 1
Clock == Epoch..(Epoch + MaxTime)

\* What the observer knows of the last handler of MonkeyDetectionGUI.
MdgCall(op, d, now) == [op |-> op, detected |-> d, now |-> now]

\* MonkeyDetectionGUI.__init__; camera_thread is an attribute only once
\* start_camera has created it.  clock, call, tx, outcome and stamps are the
\* observer's: the time, the last handler, its serial write, how it ended, and
\* the counted detections (time and cooldown in force) so far.
MdgInit ==
    [model |-> FALSE, arduino |-> "None", camera |-> "None",
     detection_thread |-> "None", detection_active |-> FALSE,
     arduino_connected |-> FALSE, detection_count |-> 0,
     last_detection_time |-> 0, alert_cooldown |-> DefaultCooldown,
     camera_thread |-> "unset",
     clock |-> Epoch, call |-> MdgCall("__init__", FALSE, 0), tx |-> NoCmd,
     outcome |-> "returned", stamps |-> <<>>]

\* ------------------------------------------------------------------- Init
\* FixedMonkeyDetectorGUI.__init__; min_gap_frames is fixed at construction.
Init ==
    /\ model = FALSE
    /\ camera = "None"
    /\ detection_active = FALSE
    /\ arduino = FALSE
    /\ arduino_connected = FALSE
    /\ confidence_threshold = DefaultSlider
    /\ min_gap_frames \in GapValues
    /\ detection_count = 0
    /\ monkey_present = FALSE
    /\ detection_start_time = NoTime
    /\ no_detection_frames = 0
    /\ threads = [t \in ThreadIds |-> [pc |-> "none", running |-> FALSE, threshold |-> 0]]
    /\ detection_thread = 0
    /\ queue = <<>>
    /\ call = Call("other", FALSE, 0, 0, 0)
    /\ event = NoEvent
    /\ tx = NoCmd
    /\ scan = NoScan
    /\ run = 0
    /\ edges = 0
    /\ edgeSeq = <<>>
    /\ sess = NoSession
    /\ twin = [present |-> FALSE, frames |-> 0, count |-> 0, start |-> NoTime,
               kind |-> "None", confidence |-> 0]
    /\ mach = [present |-> FALSE, run |-> 0, count |-> 0, kind |-> "None"]
    /\ alert = FALSE
    /\ trail = OffTrail
    /\ pinned = 0
    /\ waiting = FALSE
    /\ mdg = MdgInit

\* ------------------------------------------------------- the serial port
\* `if self.arduino_connected and self.arduino:` a write is attempted.
Linked == arduino_connected /\ arduino

\* Every alert written as the activate command.
SerialWrite_AlwaysDetected(linked, cmd, ok) ==
    IF ~linked THEN NoCmd ELSE IF ok THEN CmdDetected ELSE Raised

\* `if self.arduino_connected and self.arduino: try: write(cmd) ...`: no write
\* is made, or the command reaches the line (ok), or the write raises (~ok).
SerialWrite(linked, cmd, ok) ==
    IF ~linked THEN NoCmd ELSE IF ok THEN cmd ELSE Raised

\* The exception of a failed write left to propagate.
Escapes_Unhandled(outcome) == outcome = Raised

\* `except: pass`: the exception of a failed write never leaves the handler,
\* which goes on to its remaining statements.
Escapes(outcome) == FALSE

\* The observer's view of the buzzer after a handler's write: on after a
\* MONKEY_DETECTED reached the line, off (or unknown) after a STOP_ALERT or a
\* write that raised, as before otherwise.
Buzzing(outcome) ==
    IF outcome = CmdDetected THEN TRUE
    ELSE IF outcome \in {CmdStop, Raised} THEN FALSE
    ELSE alert

\* A handler that is not part of the debouncer: it reports no sighting event.
\* Handlers run on the GUI thread, so none runs while stop_all is in wait().
Plain(op) ==
    /\ ~waiting
    /\ call' = Call(IF op \in {"start_detection", "start_detection_rejected", "stop_all"}
                       THEN op ELSE "other",
                     FALSE, 0, 0, 0)
    /\ event' = NoEvent
    /\ scan' = NoScan
    /\ UNCHANGED ext

\* ------------------------------------------------ handlers around the core
\* load_model: the model is loaded, or an error / a cancelled dialog leaves it.
LoadModel ==
    /\ \E loaded \in BOOLEAN : model' = (model \/ loaded)
    /\ Plain("load_model")
    /\ tx' = NoCmd
    /\ UNCHANGED <<camera, detection_active, arduino, arduino_connected,
                   confidence_threshold, min_gap_frames, deb, wrk, hist>>

\* start_camera: VideoCapture(0) raises, or yields a closed or an open capture.
\* (The CameraThread it starts only feeds the display and is left out.)
StartCamera ==
    /\ \E outcome \in {"raised", "closed", "open"} :
         camera' = IF outcome = "raised" THEN camera ELSE outcome
    /\ Plain("start_camera")
    /\ tx' = NoCmd
    /\ UNCHANGED <<model, detection_active, arduino, arduino_connected,
                   confidence_threshold, min_gap_frames, deb, wrk, hist>>

\* connect_arduino: Serial() may raise; the STATUS probe may raise after it.
ConnectArduino ==
    /\ \E opened \in BOOLEAN, ok \in BOOLEAN :
         /\ arduino' = (arduino \/ opened)
         /\ arduino_connected' = (arduino_connected \/ (opened /\ ok))
         /\ tx' = IF opened /\ ok THEN CmdStatus ELSE NoCmd
    /\ Plain("connect_arduino")
    /\ UNCHANGED <<model, camera, detection_active, confidence_threshold,
                   min_gap_frames, deb, wrk, hist>>

\* update_confidence(value): the slider's value / 100.0.
UpdateConfidence ==
    /\ \E value \in SliderValues : confidence_threshold' = value
    /\ Plain("update_confidence")
    /\ tx' = NoCmd
    /\ UNCHANGED <<model, camera, detection_active, arduino, arduino_connected,
                   min_gap_frames, deb, wrk, hist>>

\* ------------------------------------------------------ the polling worker
\* Python's max of two numbers.
Max(a, b) == IF a >= b THEN a ELSE b

\* A box that only equals the threshold taken for a detection.
Above_OrEqual(confidence, threshold) == confidence >= threshold

\* `if confidence > self.confidence_threshold:`
Above(confidence, threshold) == confidence > threshold

\* What the detector can return for a frame: the confidences of its boxes, in
\* the order the loops of run() visit them.
Frames == UNION {[1..n -> BoxConfs] : n \in 0..MaxBoxes}

\* The body of the loop over the boxes, on the pair
\* (monkey_detected, max_confidence).
Scan(acc, confidence, threshold) ==
    IF Above(confidence, threshold)
      THEN [detected |-> TRUE, confidence |-> Max(acc.confidence, confidence)]
      ELSE acc

\* The loop over the boxes from the i-th on.
RECURSIVE ReduceFrom(_, _, _, _)
ReduceFrom(boxes, i, threshold, acc) ==
    IF i > Len(boxes) THEN acc
    ELSE ReduceFrom(boxes, i + 1, threshold, Scan(acc, boxes[i], threshold))

\* ProperDetectionThread.run, the reduction of one frame's boxes to a signal:
\* monkey_detected = False, max_confidence = 0, then the loop.
Reduce(boxes, threshold) ==
    ReduceFrom(boxes, 1, threshold, [detected |-> FALSE, confidence |-> 0])

\* The signals one poll cycle of a worker with this threshold can emit.
Signals(threshold) == {Reduce(boxes, threshold) : boxes \in Frames}

\* A step of a worker as the observer sees it.
Step(op, d, c) ==
    /\ call' = Call(op, d, c, 0, 0)
    /\ event' = NoEvent
    /\ tx' = NoCmd
    /\ UNCHANGED ext

\* run() begins: self.running = True.
WorkerBegin(t) ==
    /\ threads[t].pc = "start"
    /\ threads' = [threads EXCEPT ![t].pc = "check", ![t].running = TRUE]
    /\ Step("run", FALSE, 0)
    /\ scan' = NoScan
    /\ UNCHANGED <<gui, deb, detection_thread, queue, hist>>

\* A loop that tests only its own flag.
WorkerCheck_RunningOnly(t) ==
    /\ threads[t].pc = "check"
    /\ threads' = [threads EXCEPT ![t].pc = IF threads[t].running THEN "cycle" ELSE "done"]
    /\ Step("while", FALSE, 0)
    /\ scan' = NoScan
    /\ UNCHANGED <<gui, deb, detection_thread, queue, hist>>

\* while self.running and self.parent.detection_active
WorkerCheck(t) ==
    /\ threads[t].pc = "check"
    /\ threads' = [threads EXCEPT ![t].pc =
                     IF threads[t].running /\ detection_active THEN "cycle" ELSE "done"]
    /\ Step("while", FALSE, 0)
    /\ scan' = NoScan
    /\ UNCHANGED <<gui, deb, detection_thread, queue, hist>>

\* A failed cycle that posts a non-detection.
WorkerSkip_EmitsMiss(t) ==
    /\ threads[t].pc = "cycle"
    /\ threads' = [threads EXCEPT ![t].pc = "check"]
    /\ Len(queue) < MaxQueue
    /\ queue' = Append(queue, [detected |-> FALSE, confidence |-> 0])
    /\ \E cause \in {"no_frame", "detector_error"} : Step(cause, FALSE, 0)
    /\ scan' = NoScan
    /\ UNCHANGED <<gui, deb, detection_thread, hist>>

\* One poll cycle that emits nothing: camera.read() returns ret = False, or
\* the detector raises and the except clause prints the error.
WorkerSkip(t) ==
    /\ threads[t].pc = "cycle"
    /\ threads' = [threads EXCEPT ![t].pc = "check"]
    /\ \E cause \in {"no_frame", "detector_error"} : Step(cause, FALSE, 0)
    /\ scan' = NoScan
    /\ UNCHANGED <<gui, deb, detection_thread, queue, hist>>

\* A poll cycle that compares against the GUI's field as it is now.
WorkerEmit_LiveThreshold(t) ==
    /\ threads[t].pc = "cycle"
    /\ Len(queue) < MaxQueue
    /\ \E boxes \in Frames :
         LET sig == Reduce(boxes, confidence_threshold)
         IN  /\ queue' = Append(queue, sig)
             /\ Step("emit", sig.detected, sig.confidence)
             /\ scan' = [boxes |-> boxes, threshold |-> confidence_threshold,
                         queued |-> Len(queue)]
    /\ threads' = [threads EXCEPT ![t].pc = "check"]
    /\ UNCHANGED <<gui, deb, detection_thread, hist>>

\* One poll cycle that processes a frame: the boxes are reduced and
\* detection_result is emitted once; the signal is queued for the GUI thread.
WorkerEmit(t) ==
    /\ threads[t].pc = "cycle"
    /\ Len(queue) < MaxQueue
    /\ \E boxes \in Frames :
         LET sig == Reduce(boxes, threads[t].threshold)
         IN  /\ queue' = Append(queue, sig)
             /\ Step("emit", sig.detected, sig.confidence)
             /\ scan' = [boxes |-> boxes, threshold |-> threads[t].threshold,
                         queued |-> Len(queue)]
    /\ threads' = [threads EXCEPT ![t].pc = "check"]
    /\ UNCHANGED <<gui, deb, detection_thread, hist>>

\* ---------------------------------------------------------- start_detection
\* A start that resets the state tracking before it looks at the model and
\* the camera.
StartDetectionRejected_ResetsFirst ==
    /\ ~model \/ camera # "open"
    /\ monkey_present' = FALSE
    /\ detection_start_time' = NoTime
    /\ no_detection_frames' = 0
    /\ Plain("start_detection_rejected")
    /\ tx' = NoCmd
    /\ UNCHANGED <<gui, detection_count, wrk, hist>>

\* The two early returns of start_detection: show_error, nothing else.
StartDetectionRejected ==
    /\ ~model \/ camera # "open"
    /\ Plain("start_detection_rejected")
    /\ tx' = NoCmd
    /\ UNCHANGED <<gui, deb, wrk, hist>>

\* The second copy taken afresh from the object's fields when a session starts
\* or stops.
Resumed == [present |-> monkey_present', frames |-> no_detection_frames',
            count |-> detection_count', start |-> detection_start_time',
            kind |-> "None", confidence |-> 0]

\* The specified machine put in the object's state when a session starts or
\* stops; absentRunLength is taken from no_detection_frames.
Synced == [present |-> monkey_present', run |-> no_detection_frames',
           count |-> detection_count', kind |-> "None"]

\* A reset that also zeroes the count.
ResetDetectionState_ZeroCount ==
    /\ monkey_present' = FALSE
    /\ detection_start_time' = NoTime
    /\ no_detection_frames' = 0
    /\ detection_count' = 0

\* A reset that forgets the start time.
ResetDetectionState_KeepStartTime ==
    /\ monkey_present' = FALSE
    /\ no_detection_frames' = 0
    /\ UNCHANGED <<detection_start_time, detection_count>>

\* A reset that forgets the presence flag.
ResetDetectionState_KeepPresence ==
    /\ detection_start_time' = NoTime
    /\ no_detection_frames' = 0
    /\ UNCHANGED <<monkey_present, detection_count>>

\* "# Reset detection state": the three fields of the state tracking;
\* detection_count is not among them.
ResetDetectionState ==
    /\ monkey_present' = FALSE
    /\ detection_start_time' = NoTime
    /\ no_detection_frames' = 0
    /\ UNCHANGED detection_count

\* start_detection past its checks: reset, then create and start a new worker
\* that carries the current threshold; a worker already running is left running.
StartDetection ==
    /\ model /\ camera = "open"
    /\ \E t \in ThreadIds :
         /\ threads[t].pc \in {"none", "done"}
         /\ \A u \in ThreadIds : threads[u].pc \in {"none", "done"} => t <= u
         /\ threads' = [threads EXCEPT ![t] =
                          [pc |-> "start", running |-> FALSE,
                           threshold |-> confidence_threshold]]
         /\ detection_thread' = t
    /\ detection_active' = TRUE
    /\ ResetDetectionState
    /\ Plain("start_detection")
    /\ tx' = NoCmd
    /\ run' = 0
    /\ edgeSeq' = <<>>
    /\ sess' = [open |-> TRUE, seen |-> FALSE, short |-> TRUE, grown |-> 0,
                linked |-> arduino_connected /\ arduino, alerts |-> 0,
                stale |-> monkey_present]
    /\ twin' = Resumed
    /\ mach' = Synced
    /\ trail' = IF detection_count = 0 THEN FreshTrail ELSE OffTrail
    /\ pinned' = confidence_threshold
    /\ UNCHANGED <<model, camera, arduino, arduino_connected, confidence_threshold,
                   min_gap_frames, queue, edges, alert>>

\* ----------------------------------------------------------------- stop_all
\* What stop_all reports when it reaches its end: "All operations stopped".
Stopped == [kind |-> "Stopped", count |-> 0, confidence |-> 0]

\* A stop that leaves the sighting state as it finds it.
StopFlags_KeepState ==
    /\ detection_active' = FALSE
    /\ UNCHANGED <<monkey_present, no_detection_frames>>

\* The first three statements of stop_all.
StopFlags ==
    /\ detection_active' = FALSE
    /\ monkey_present' = FALSE
    /\ no_detection_frames' = 0

\* stop_all: clear the flags, stop() and wait() for the current worker (which
\* finishes the poll cycle it is in, emitting at most one more signal), release
\* the camera, write STOP_ALERT.  The count and the start time are not touched.
StopAll ==
    /\ ~waiting
    /\ StopFlags
    /\ IF detection_thread = 0
         THEN UNCHANGED <<threads, queue>>
         ELSE LET t == detection_thread
                  th == threads[t]
                  done == [th EXCEPT !.pc = "done", !.running = (th.pc = "start")]
              IN  /\ threads' = [threads EXCEPT ![t] = done]
                  /\ \/ queue' = queue
                     \/ /\ th.pc = "cycle"
                        /\ Len(queue) < MaxQueue
                        /\ \E sig \in Signals(th.threshold) : queue' = Append(queue, sig)
    /\ camera' = "None"
    /\ \E ok \in BOOLEAN : tx' = SerialWrite(Linked, CmdStop, ok)
    /\ call' = Call("stop_all", FALSE, 0, 0, 0)
    /\ scan' = NoScan
    /\ event' = IF Escapes(tx') THEN NoEvent ELSE Stopped
    /\ run' = 0
    /\ edgeSeq' = <<>>
    /\ sess' = NoSession
    /\ UNCHANGED <<model, arduino, arduino_connected, confidence_threshold,
                   min_gap_frames, detection_count, detection_start_time,
                   detection_thread, edges>>
    /\ twin' = Resumed
    /\ mach' = Synced
    /\ alert' = Buzzing(tx')
    /\ trail' = OffTrail
    /\ UNCHANGED <<pinned, ext>>

\* ----------------------------------------------------------- handle_detection
\* The counter left running through a detection.
FramesAfterDetection_Kept(frames) == frames

\* `self.no_detection_frames = 0`, the first statement of the detected branch.
FramesAfterDetection(frames) == 0

\* The debouncer thresholding the confidence a second time.
Detected_Rethreshold(detected, confidence) ==
    detected /\ confidence > confidence_threshold

\* `if detected:` the flag alone picks the branch.
Detected(detected, confidence) == detected

\* The counter left as it was by a missed frame.
FramesAfterMiss_Stuck(frames) == frames

\* `self.no_detection_frames += 1`, the first statement of the other branch.
FramesAfterMiss(frames) == frames + 1

\* Every detection taken for a new sighting.
NewSighting_Always(present) == TRUE

\* `if not self.monkey_present:` a detection counts as a new sighting.
NewSighting(present) == ~present

\* The count left as it was.
Incremented_Not(count) == count

\* `self.detection_count += 1`
Incremented(count) == count + 1

\* The comparison off by one.
Departed_Late(present, frames) == present /\ frames > min_gap_frames

\* The first missed frame taken for a departure.
Departed_AtOnce(present, frames) == present /\ frames >= 1

\* A departure reported whether or not a sighting is in progress.
Departed_Unguarded(present, frames) == frames >= min_gap_frames

\* A sighting that no run of non-detections ends.
Departed_Never(present, frames) == FALSE

\* `if self.monkey_present and self.no_detection_frames >= self.min_gap_frames:`
\* evaluated on the counter already incremented for this frame.
Departed(present, frames) == present /\ frames >= min_gap_frames

\* The four fields of the state tracking as one value.
Deb == [present |-> monkey_present, frames |-> no_detection_frames,
        count |-> detection_count, start |-> detection_start_time]

\* handle_detection(detected, confidence, frame) as a function of the state
\* tracking s it finds: the fields it leaves, the outcome of its serial write
\* and the event it reports.  now: what time.time() returns; linked: a write is
\* attempted; ok: the write succeeds.  The fields are assigned before the write,
\* the event is reported after it.
Observe(s, detected, confidence, now, linked, ok) ==
    IF Detected(detected, confidence)
      THEN LET frames == FramesAfterDetection(s.frames) IN
           IF NewSighting(s.present)
             THEN LET count == Incremented(s.count)
                      out == SerialWrite(linked, CmdDetected, ok)
                  IN  [present |-> TRUE, frames |-> frames, count |-> count,
                       start |-> now, tx |-> out,
                       event |-> IF Escapes(out) THEN NoEvent
                                 ELSE Started(count, confidence)]
             ELSE [present |-> s.present, frames |-> frames, count |-> s.count,
                   start |-> s.start, tx |-> NoCmd, event |-> Ongoing(confidence)]
      ELSE LET frames == FramesAfterMiss(s.frames) IN
           IF Departed(s.present, frames)
             THEN LET out == SerialWrite(linked, CmdStop, ok)
                  IN  [present |-> FALSE, frames |-> frames, count |-> s.count,
                       start |-> s.start, tx |-> out,
                       event |-> IF Escapes(out) THEN NoEvent ELSE Ended]
             ELSE [present |-> s.present, frames |-> frames, count |-> s.count,
                   start |-> s.start, tx |-> NoCmd, event |-> Idle]

\* The specified debouncer, observe(signal) on the state m = (present,
\* absentRunLength, sightingCount) with gapFrames = min_gap_frames:
\*   Absent  --detected-->                 Present  SightingStarted, count + 1
\*   Present --detected-->                 Present  SightingOngoing, run -> 0
\*   Present --missed, run <  gapFrames--> Present  Idle, run + 1
\*   Present --missed, run >= gapFrames--> Absent   SightingEnded, run -> 0
\*   Absent  --missed-->                   Absent   Idle
\* where run is the counter already incremented for this observation.
Machine(m, detected) ==
    IF detected
      THEN IF ~m.present
             THEN [present |-> TRUE, run |-> 0, count |-> m.count + 1, kind |-> "Started"]
             ELSE [present |-> TRUE, run |-> 0, count |-> m.count, kind |-> "Ongoing"]
      ELSE LET absent == m.run + 1 IN
           IF m.present /\ absent >= min_gap_frames
             THEN [present |-> FALSE, run |-> 0, count |-> m.count, kind |-> "Ended"]
             ELSE [present |-> m.present, run |-> absent, count |-> m.count, kind |-> "Idle"]

\* stop_all as far as the call of wait(): the flags are cleared and stop()
\* clears the current worker's running flag.
StopAllEnter ==
    /\ ~waiting
    /\ StopFlags
    /\ threads' = IF detection_thread = 0 THEN threads
                  ELSE [threads EXCEPT ![detection_thread].running = FALSE]
    /\ waiting' = TRUE
    /\ call' = Call("wait", FALSE, 0, 0, 0)
    /\ event' = NoEvent
    /\ tx' = NoCmd
    /\ scan' = NoScan
    /\ run' = 0
    /\ edgeSeq' = <<>>
    /\ sess' = NoSession
    /\ trail' = OffTrail
    /\ UNCHANGED <<model, camera, arduino, arduino_connected, confidence_threshold,
                   min_gap_frames, detection_count, detection_start_time,
                   detection_thread, queue, edges, alert, pinned, mdg>>
    /\ twin' = Resumed
    /\ mach' = Synced

\* wait() returns once run() has returned (at once if there is no worker);
\* stop_all then releases the camera, writes STOP_ALERT and reports.
StopAllReturn ==
    /\ waiting
    /\ detection_thread # 0 => threads[detection_thread].pc = "done"
    /\ waiting' = FALSE
    /\ camera' = "None"
    /\ \E ok \in BOOLEAN : tx' = SerialWrite(Linked, CmdStop, ok)
    /\ call' = Call("stop_all", FALSE, 0, 0, 0)
    /\ scan' = NoScan
    /\ event' = IF Escapes(tx') THEN NoEvent ELSE Stopped
    /\ alert' = Buzzing(tx')
    /\ UNCHANGED <<model, detection_active, arduino, arduino_connected,
                   confidence_threshold, min_gap_frames, deb, wrk,
                   run, edges, edgeSeq, sess, twin, mach, trail, pinned, mdg>>

\* What the observer records of a handle_detection call.
Record(detected, ok) ==
    /\ run' = IF detected THEN 0 ELSE run + 1
    /\ edges' = edges + (IF ~monkey_present /\ monkey_present' THEN 1 ELSE 0)
    /\ edgeSeq' = IF event'.kind \in {"Started", "Ended"}
                    THEN Append(edgeSeq, event'.kind) ELSE edgeSeq
    /\ sess' = IF ~sess.open THEN sess
               ELSE IF ~sess.short \/ (~detected /\ sess.seen /\ run' >= min_gap_frames)
                 THEN OverlongSession
               ELSE LET linked == sess.linked /\ (event'.kind \in {"Started", "Ended"} => ok)
                    IN  [sess EXCEPT
                           !.seen = @ \/ detected,
                           !.grown = @ + (detection_count' - detection_count),
                           !.linked = linked,
                           !.alerts = IF ~linked THEN 0
                                      ELSE @ + (IF tx' = CmdDetected THEN 1 ELSE 0)]
    /\ mach' = Machine(mach, detected)
    /\ alert' = Buzzing(tx')
    /\ trail' = LET inputs == Append(trail.inputs, detected) IN
                IF trail.on /\ \E q \in Scenarios : IsPrefix(inputs, q)
                  THEN [on |-> TRUE, inputs |-> inputs,
                        events |-> Append(trail.events,
                                          [kind |-> event'.kind,
                                           count |-> detection_count',
                                           frames |-> no_detection_frames'])]
                  ELSE OffTrail

\* handle_detection run on the object's own fields.
handle_detection(detected, confidence, now, ok) ==
    /\ ~waiting
    /\ LET r == Observe(Deb, detected, confidence, now, Linked, ok)
       IN  /\ monkey_present' = r.present
           /\ no_detection_frames' = r.frames
           /\ detection_count' = r.count
           /\ detection_start_time' = r.start
           /\ tx' = r.tx
           /\ event' = r.event
    /\ call' = Call("handle_detection", detected, confidence, now, run)
    /\ scan' = NoScan
    /\ Record(detected, ok)
    /\ UNCHANGED <<pinned, ext>>

\* The second copy's fields after the same handler ran on them with no Arduino.
TwinStep(detected, confidence, now) ==
    LET r == Observe([present |-> twin.present, frames |-> twin.frames,
                      count |-> twin.count, start |-> twin.start],
                     detected, confidence, now, FALSE, TRUE)
    IN  [present |-> r.present, frames |-> r.frames, count |-> r.count,
         start |-> r.start, kind |-> r.event.kind, confidence |-> confidence]

\* The slot runs on one signal; the second copy runs on a signal with the same
\* flag and confidence c2, at the same time or (~same) at any time.  The guards
\* keep the two unbounded counters within the model.
SlotPair(sig, c2, same) ==
    /\ sig.detected /\ ~monkey_present => detection_count < MaxCount
    /\ sig.detected /\ ~mach.present => mach.count < MaxCount
    /\ ~sig.detected => no_detection_frames <= min_gap_frames
    /\ \E now \in Times, ok \in BOOLEAN :
         /\ ~(sig.detected /\ NewSighting(monkey_present)) => now = 0    \* time.time() is not read
         /\ ~Linked => ok                                                \* no write is made
         /\ handle_detection(sig.detected, sig.confidence, now, ok)
         /\ \E now2 \in Times :
              /\ same => now2 = now
              /\ ~(sig.detected /\ NewSighting(twin.present)) => now2 = 0
              /\ twin' = TwinStep(sig.detected, c2, now2)
    /\ UNCHANGED <<gui, threads, detection_thread>>

\* The slot runs on one signal, and the second copy on the same one.
Slot(sig) == SlotPair(sig, sig.confidence, TRUE)

\* Confidences the second copy may be handed, whatever the flag.
AnyConfs == BoxConfs \cup {0}

\* The GUI thread's event loop delivers the oldest queued detection_result to
\* its slot.
Deliver ==
    /\ queue # <<>>
    /\ Slot(Head(queue))
    /\ queue' = Tail(queue)

\* The signals the workers created so far can have emitted.
Emitted ==
    LET thresholds == {threads[t].threshold : t \in {u \in ThreadIds : threads[u].pc # "none"}}
    IN  UNION {Signals(threshold) : threshold \in thresholds}

\* The GUI thread seen alone: handle_detection runs on whatever signal a worker
\* created so far can have emitted; the workers' own steps and the queue are
\* left out.
HandleDetection ==
    /\ \E sig \in Emitted : Slot(sig)
    /\ UNCHANGED queue

\* As HandleDetection, the second copy being handed the same flag with any
\* confidence at any time.
HandleDetectionTwin ==
    /\ \E sig \in Emitted, c2 \in AnyConfs : SlotPair(sig, c2, FALSE)
    /\ UNCHANGED queue

\* ------------------------------------------------------------ specification
\* The handlers of the GUI thread that decide when detection runs and whether
\* alerts reach the Arduino.
Handlers ==
    \/ LoadModel
    \/ StartCamera
    \/ ConnectArduino
    \/ StartDetectionRejected
    \/ StartDetection
    \/ StopAll

\* The GUI thread alone, under every sequence of signals.
Next ==
    \/ Handlers
    \/ HandleDetection

Spec == Init /\ [][Next]_vars

\* Two copies of the debouncer fed the same flags with confidences and times
\* of their own, no Arduino being connected.
NextTwin ==
    \/ LoadModel
    \/ StartCamera
    \/ StartDetection
    \/ StopAll
    \/ HandleDetectionTwin

\* The object as constructed, with one of the small gap thresholds.
InitTwin == Init /\ min_gap_frames \in 1..MaxGap

SpecTwin == InitTwin /\ [][NextTwin]_vars

\* The GUI thread together with its workers and the signal queue: the signals
\* handle_detection runs on are those the workers emitted, in order.  No
\* Arduino is connected and the slider is left alone.
NextWorker ==
    \/ LoadModel
    \/ StartCamera
    \/ StartDetection
    \/ StopAll
    \/ Deliver
    \/ \E t \in ThreadIds : WorkerBegin(t)
    \/ \E t \in ThreadIds : WorkerCheck(t)
    \/ \E t \in ThreadIds : WorkerSkip(t)
    \/ \E t \in ThreadIds : WorkerEmit(t)

\* The object as constructed, with the smallest gap threshold.
InitWorker == Init /\ min_gap_frames = 1

SpecWorker == InitWorker /\ [][NextWorker]_vars

\* Start Detection pressed while detection is off.
StartDetectionWhenIdle == ~detection_active /\ StartDetection

\* As NextWorker, for a user who moves the slider and presses Start Detection
\* only while detection is off: one worker at a time.
NextCycle ==
    \/ LoadModel
    \/ StartCamera
    \/ UpdateConfidence
    \/ StartDetectionWhenIdle
    \/ StopAll
    \/ Deliver
    \/ \E t \in ThreadIds : WorkerBegin(t)
    \/ \E t \in ThreadIds : WorkerCheck(t)
    \/ \E t \in ThreadIds : WorkerSkip(t)
    \/ \E t \in ThreadIds : WorkerEmit(t)

SpecCycle == InitWorker /\ [][NextCycle]_vars

\* One step of worker t, whatever its position.
WorkerStep(t) == WorkerBegin(t) \/ WorkerCheck(t) \/ WorkerSkip(t) \/ WorkerEmit(t)

\* As NextCycle with the slider left alone, stop_all being two steps with the
\* worker's steps in between: the GUI thread is blocked from StopAllEnter to
\* StopAllReturn.
NextStop ==
    \/ LoadModel
    \/ StartCamera
    \/ StartDetectionWhenIdle
    \/ StopAllEnter
    \/ StopAllReturn
    \/ Deliver
    \/ \E t \in ThreadIds : WorkerBegin(t)
    \/ \E t \in ThreadIds : WorkerCheck(t)
    \/ \E t \in ThreadIds : WorkerSkip(t)
    \/ \E t \in ThreadIds : WorkerEmit(t)

\* A started thread is scheduled and camera.read() and the model call return,
\* so every worker keeps taking steps; the GUI thread goes on when wait()
\* returns.
SpecStop ==
    /\ InitWorker
    /\ [][NextStop]_vars
    /\ \A t \in ThreadIds : WF_vars(WorkerStep(t))
    /\ WF_vars(StopAllReturn)

\* One step of worker t in a session whose every poll cycle gets a frame and
\* a result.
WorkerPoll(t) == WorkerBegin(t) \/ WorkerCheck(t) \/ WorkerEmit(t)

\* One session that is never stopped: the camera and the detector do not
\* fail, the Arduino may be connected at any moment.
NextLive ==
    \/ LoadModel
    \/ StartCamera
    \/ ConnectArduino
    \/ StartDetectionWhenIdle
    \/ Deliver
    \/ \E t \in ThreadIds : WorkerBegin(t)
    \/ \E t \in ThreadIds : WorkerCheck(t)
    \/ \E t \in ThreadIds : WorkerEmit(t)

\* The object as constructed, with a gap threshold of more than one frame.
InitLive == Init /\ min_gap_frames = MaxGap - 1

\* The worker thread keeps being scheduled (its loop sleeps 100 ms and goes
\* on), and the GUI thread's event loop delivers every queued signal.
SpecLive ==
    /\ InitLive
    /\ [][NextLive]_vars
    /\ \A t \in ThreadIds : WF_vars(WorkerPoll(t))
    /\ WF_vars(Deliver)

\* ------------------------------------------- monkey_detection_gui.py
\* A handler of MonkeyDetectionGUI that returns: the new object, as the
\* observer sees it.
MdgDone(m, op) == [m EXCEPT !.call = MdgCall(op, FALSE, 0), !.tx = NoCmd,
                            !.outcome = "returned"]

\* The window is open: closeEvent has not accepted the close, and no exception
\* has escaped a handler.
MdgOpen == mdg.outcome = "returned"

\* load_model: YOLO(file_path), or a cancelled dialog / an error.
MdgLoadModel ==
    /\ MdgOpen
    /\ \E loaded \in BOOLEAN :
         mdg' = MdgDone([mdg EXCEPT !.model = @ \/ loaded], "load_model")
    /\ UNCHANGED <<gui, deb, wrk, obs, hist, waiting>>

\* start_camera: VideoCapture raises, or self.camera is the new capture; if it
\* is open a CameraThread is created and started.
MdgStartCamera ==
    /\ MdgOpen
    /\ \E result \in {"raised", "closed", "open"} :
         mdg' = MdgDone([mdg EXCEPT
                           !.camera = IF result = "raised" THEN @ ELSE result,
                           !.camera_thread = IF result = "open" THEN "running" ELSE @],
                        "start_camera")
    /\ UNCHANGED <<gui, deb, wrk, obs, hist, waiting>>

\* stop_camera: stop and wait for the camera thread if the attribute exists,
\* release the camera if there is one.
MdgStopCamera ==
    /\ MdgOpen
    /\ mdg' = MdgDone([mdg EXCEPT
                         !.camera_thread = IF @ = "unset" THEN @ ELSE "stopped",
                         !.camera = "None"],
                      "stop_camera")
    /\ UNCHANGED <<gui, deb, wrk, obs, hist, waiting>>

\* connect_arduino: Serial() raises, or self.arduino is the port and the
\* STATUS probe is answered or not.
MdgConnectArduino ==
    /\ MdgOpen
    /\ \E opened \in BOOLEAN, answered \in BOOLEAN :
         mdg' = [MdgDone([mdg EXCEPT
                            !.arduino = IF opened THEN "open" ELSE @,
                            !.arduino_connected = @ \/ (opened /\ answered)],
                         "connect_arduino")
                   EXCEPT !.tx = IF opened THEN CmdStatus ELSE NoCmd]
    /\ UNCHANGED <<gui, deb, wrk, obs, hist, waiting>>

\* update_cooldown(value)
MdgUpdateCooldown ==
    /\ MdgOpen
    /\ \E value \in CooldownValues :
         mdg' = MdgDone([mdg EXCEPT !.alert_cooldown = value], "update_cooldown")
    /\ UNCHANGED <<gui, deb, wrk, obs, hist, waiting>>

\* start_detection past its two checks: a DetectionThread is created and started.
MdgStartDetection ==
    /\ MdgOpen
    /\ mdg.model /\ mdg.camera = "open"
    /\ mdg' = MdgDone([mdg EXCEPT !.detection_active = TRUE,
                                  !.detection_thread = "running"],
                      "start_detection")
    /\ UNCHANGED <<gui, deb, wrk, obs, hist, waiting>>

\* stop_detection: the flag is cleared; the thread, if there is one, is stopped
\* and waited for.
MdgStopDetection ==
    /\ MdgOpen
    /\ mdg' = MdgDone([mdg EXCEPT
                         !.detection_active = FALSE,
                         !.detection_thread = IF @ = "None" THEN @ ELSE "finished"],
                      "stop_detection")
    /\ UNCHANGED <<gui, deb, wrk, obs, hist, waiting>>

\* if self.arduino_connected and self.arduino
MdgLinked(m) == m.arduino_connected /\ m.arduino # "None"

\* A cooldown that ends one instant early.
CooledDown_Inclusive(now, last, cooldown) == now - last >= cooldown

\* (current_time - self.last_detection_time) > self.alert_cooldown
CooledDown(now, last, cooldown) == now - last > cooldown

\* handle_detection(detected, confidence, frame) at time `now`; ok: the serial
\* write does not raise (the bare except swallows it if it does).
MdgObserve(m, detected, now, ok) ==
    IF detected /\ CooledDown(now, m.last_detection_time, m.alert_cooldown)
      THEN [m EXCEPT
              !.detection_count = @ + 1,
              !.last_detection_time = now,
              !.tx = SerialWrite(MdgLinked(m), CmdDetected, ok),
              !.stamps = Append(@, [at |-> now, cooldown |-> m.alert_cooldown]),
              !.clock = now, !.call = MdgCall("handle_detection", detected, now),
              !.outcome = "returned"]
      ELSE [m EXCEPT
              !.tx = NoCmd,
              !.clock = IF detected THEN now ELSE @,
              !.call = MdgCall("handle_detection", detected, IF detected THEN now ELSE 0),
              !.outcome = "returned"]

\* The slot runs on a signal of a DetectionThread; time.time() is read only
\* when detected, and never runs backwards.
MdgHandleDetection ==
    /\ MdgOpen
    /\ mdg.detection_thread # "None"
    /\ \E detected \in BOOLEAN, now \in Clock, ok \in BOOLEAN :
         /\ now >= mdg.clock
         /\ ~detected => now = mdg.clock
         /\ ~MdgLinked(mdg) => ok
         /\ mdg' = MdgObserve(mdg, detected, now, ok)
    /\ UNCHANGED <<gui, deb, wrk, obs, hist, waiting>>

\* closeEvent: self.detection_thread.isRunning() is evaluated whenever the
\* attribute exists, and __init__ sets it to None: on None it raises
\* AttributeError, and nothing after it runs.
MdgCloseEvent ==
    /\ MdgOpen
    /\ LET stopped == [mdg EXCEPT !.camera_thread = IF @ = "running" THEN "stopped" ELSE @]
       IN  mdg' = IF mdg.detection_thread = "None"
                    THEN [stopped EXCEPT !.call = MdgCall("closeEvent", FALSE, 0),
                                         !.tx = NoCmd, !.outcome = "AttributeError"]
                    ELSE [stopped EXCEPT
                            !.detection_thread = "finished",
                            !.camera = IF @ = "None" THEN @ ELSE "released",
                            !.arduino = IF @ = "None" THEN @ ELSE "closed",
                            !.call = MdgCall("closeEvent", FALSE, 0),
                            !.tx = NoCmd, !.outcome = "accepted"]
    /\ UNCHANGED <<gui, deb, wrk, obs, hist, waiting>>

\* MonkeyDetectionGUI under every sequence of its handlers and signals.
NextMdg ==
    \/ MdgLoadModel
    \/ MdgStartCamera
    \/ MdgStopCamera
    \/ MdgConnectArduino
    \/ MdgUpdateCooldown
    \/ MdgStartDetection
    \/ MdgStopDetection
    \/ MdgHandleDetection
    \/ MdgCloseEvent

\* The other program's object is only constructed.
InitMdg == Init /\ min_gap_frames = DefaultGapFrames

SpecMdg == InitMdg /\ [][NextMdg]_vars

TypeOK ==
    /\ detection_count \in 0..MaxCount
    /\ no_detection_frames \in 0..(min_gap_frames + 1)
    /\ monkey_present \in BOOLEAN
    /\ detection_start_time \in {NoTime} \cup Times
    /\ Len(queue) <= MaxQueue

\* ====================================================================
\* Properties
\* ====================================================================

\* This step is a handle_detection call with this value of `detected`.
Handled(d) ==
    /\ call'.op = "handle_detection"
    /\ call'.detected = d
    /\ UNCHANGED threads

\* C1: in a session that has seen a detection and in which every run of
\* non-detections after the first detection stayed shorter than
\* min_gap_frames, detection_count has grown by exactly 1 and, the Arduino
\* being connected throughout, exactly one MONKEY_DETECTED was written.
C1_OneSightingPerEpisode ==
    (sess.open /\ sess.seen /\ sess.short) =>
        /\ sess.grown = 1
        /\ sess.linked => sess.alerts = 1

\* A subject tracked across a gap one frame short of the source's threshold.
C1_Witness ==
    /\ sess.open /\ sess.short /\ sess.linked /\ sess.alerts = 1
    /\ min_gap_frames = DefaultGapFrames
    /\ event.kind = "Ongoing"
    /\ call.gap = min_gap_frames - 1

\* C2: detection_count equals the number of handle_detection calls in which
\* monkey_present went from False to True, and a Started event carries it.
C2_CountIsRisingEdges ==
    /\ detection_count = edges
    /\ event.kind = "Started" => event.count = detection_count

C2_Witness ==
    /\ detection_count = 2
    /\ edges = 2
    /\ event.kind = "Ongoing"

\* C3: no step lowers detection_count; a step leaves it or raises it by 1.
C3_CountMonotone ==
    [][detection_count' \in {detection_count, detection_count + 1}]_vars

\* start_detection has run with sightings already counted.
C3_Witness ==
    /\ call.op = "start_detection"
    /\ detection_count > 0

\* C4: while present, a non-detection that makes the run shorter than
\* min_gap_frames keeps the sighting and ends nothing; the one that makes the
\* run equal to min_gap_frames ends it with one Ended; further non-detections
\* while absent are Idle.
C4_GapBoundary ==
    [][ /\ (Handled(FALSE) /\ monkey_present) =>
             /\ run < min_gap_frames
             /\ (run + 1 < min_gap_frames) =>
                    (monkey_present' /\ event'.kind = "Idle" /\ tx' # CmdStop)
             /\ (run + 1 = min_gap_frames) =>
                    (~monkey_present' /\ event'.kind = "Ended")
        /\ (Handled(FALSE) /\ ~monkey_present) =>
             (~monkey_present' /\ event'.kind = "Idle" /\ tx' # CmdStop)
      ]_vars

\* The 30th consecutive non-detection of the source's threshold has ended a sighting.
C4_Witness ==
    /\ min_gap_frames = DefaultGapFrames
    /\ event.kind = "Ended"
    /\ run = DefaultGapFrames

\* C5: a detection while absent sets monkey_present, zeroes
\* no_detection_frames, records the time, raises detection_count by 1 and
\* reports Started with the new count and the call's confidence.
C5_RisingEdge ==
    [][ (Handled(TRUE) /\ ~monkey_present) =>
          /\ monkey_present'
          /\ no_detection_frames' = 0
          /\ detection_start_time' = call'.now
          /\ detection_count' = detection_count + 1
          /\ event' = Started(detection_count + 1, call'.confidence)
      ]_vars

C5_Witness ==
    /\ event.kind = "Started"
    /\ event.count = 2
    /\ event.confidence = 60
    /\ detection_start_time = 1

\* C6: a detection while present changes neither detection_count nor
\* monkey_present nor detection_start_time, leaves no_detection_frames at 0
\* and writes no command.
C6_IdempotentWhilePresent ==
    [][ (Handled(TRUE) /\ monkey_present) =>
          /\ UNCHANGED <<detection_count, monkey_present, detection_start_time>>
          /\ no_detection_frames' = 0
          /\ event'.kind = "Ongoing"
          /\ tx' = NoCmd
      ]_vars

\* A repeated detection, right after another one, of a sighting started at time 1.
C6_Witness ==
    /\ event.kind = "Ongoing"
    /\ call.gap = 0
    /\ detection_start_time = 1
    /\ detection_count = 1

\* C7: a detection inside a gap (present, 0 < no_detection_frames <
\* min_gap_frames) zeroes the counter, keeps the sighting and ends nothing;
\* and every Ended comes at the end of min_gap_frames consecutive
\* non-detections counted from the last detection.
C7_DetectionResetsGap ==
    [][ /\ (Handled(TRUE) /\ monkey_present
              /\ 0 < no_detection_frames /\ no_detection_frames < min_gap_frames) =>
             /\ no_detection_frames' = 0
             /\ monkey_present'
             /\ event'.kind = "Ongoing"
             /\ tx' # CmdStop
        /\ (Handled(FALSE) /\ event'.kind = "Ended") => run' = min_gap_frames
      ]_vars

C7_Witness ==
    /\ call.op = "handle_detection" /\ call.detected
    /\ call.gap > 0
    /\ min_gap_frames = MaxGap
    /\ monkey_present
    /\ no_detection_frames = 0

\* C8: within a session the Started and Ended events alternate, beginning
\* with Started, and the sighting is in progress exactly after a Started.
C8_EventsAlternate ==
    /\ \A i \in 1..Len(edgeSeq) :
         edgeSeq[i] = IF i % 2 = 1 THEN "Started" ELSE "Ended"
    /\ monkey_present <=> (Len(edgeSeq) % 2 = 1)

\* A second sighting has started in the same session.
C8_Witness == edgeSeq = <<"Started", "Ended", "Started">>

\* C9 as stated: after start_detection the whole sighting state is that of a
\* fresh object, the count included.
C9_ResetToFresh ==
    call.op = "start_detection" =>
        /\ detection_count = 0
        /\ ~monkey_present
        /\ no_detection_frames = 0
        /\ detection_start_time = NoTime

\* C9 amended: start_detection resets monkey_present, no_detection_frames and
\* detection_start_time and leaves detection_count as it was.
C9_ResetKeepsCount ==
    [][ call'.op = "start_detection" =>
          /\ ~monkey_present'
          /\ no_detection_frames' = 0
          /\ detection_start_time' = NoTime
          /\ detection_count' = detection_count
      ]_vars

\* A session started over a sighting in progress, with two sightings counted.
C9_Witness ==
    /\ call.op = "start_detection"
    /\ sess.stale
    /\ detection_count = 2

\* C10: in a session that has seen no detection yet, a detection is a new
\* sighting (Started, count + 1, MONKEY_DETECTED written when the Arduino is
\* linked) and a non-detection is Idle: no Ended, no STOP_ALERT.
C10_NoStalePresence ==
    [][ /\ (sess.open /\ ~sess.seen /\ Handled(TRUE)) =>
             /\ event'.kind = "Started"
             /\ monkey_present'
             /\ detection_count' = detection_count + 1
             /\ sess'.linked => tx' = CmdDetected
        /\ (sess.open /\ ~sess.seen /\ Handled(FALSE)) =>
             /\ event'.kind = "Idle"
             /\ ~monkey_present'
             /\ tx' # CmdStop
      ]_vars

\* The first detection of a session that was started over a sighting in progress.
C10_Witness ==
    /\ sess.open /\ sess.stale /\ sess.linked
    /\ edgeSeq = <<"Started">>
    /\ event.kind = "Started"
    /\ tx = CmdDetected

\* C11 as stated: stop_all leaves monkey_present, no_detection_frames,
\* detection_count and detection_start_time with the values they had.
C11_StopLeavesState ==
    [][call'.op = "stop_all" => UNCHANGED deb]_vars

\* C11: stop_all leaves detection_count and detection_start_time with the
\* values they had, and sets monkey_present to False and no_detection_frames
\* to 0 (and detection_active to False).
C11_StopClearsSighting ==
    [][call'.op = "stop_all" =>
         /\ UNCHANGED <<detection_count, detection_start_time>>
         /\ ~monkey_present'
         /\ no_detection_frames' = 0
         /\ ~detection_active'
      ]_vars

\* A stop after a sighting was counted and timed, with STOP_ALERT written.
C11_Witness ==
    /\ call.op = "stop_all"
    /\ detection_count > 0
    /\ detection_start_time # NoTime
    /\ tx = CmdStop

\* C12: in a handle_detection call made with the Arduino connected and its
\* write, if any, succeeding, MONKEY_DETECTED is written exactly when the call
\* reports Started and STOP_ALERT exactly when it reports Ended; a call that
\* reports Ongoing or Idle attempts no write at all.
C12_AlertsOnEdgesOnly ==
    (call.op = "handle_detection" /\ Linked) =>
        /\ tx # Raised =>
             /\ tx = CmdDetected <=> event.kind = "Started"
             /\ tx = CmdStop <=> event.kind = "Ended"
        /\ event.kind \in {"Ongoing", "Idle"} => tx = NoCmd
        /\ tx \in {NoCmd, CmdDetected, CmdStop, Raised}

\* The end of a second sighting switches the alert off.
C12_Witness ==
    /\ call.op = "handle_detection" /\ Linked
    /\ event.kind = "Ended"
    /\ tx = CmdStop
    /\ detection_count = 2

\* C13: the copy of the debouncer that is fed the same calls with no Arduino
\* has, after every call, the same monkey_present, no_detection_frames and
\* detection_count as the object, whose Arduino may be absent, working or
\* raising on a write; handle_detection and stop_all reach their last
\* statement (they report their event) whatever the write did.
C13_SinkFailuresKeepSync ==
    /\ twin.present = monkey_present
    /\ twin.frames = no_detection_frames
    /\ twin.count = detection_count
    /\ call.op = "handle_detection" =>
         /\ event.kind = twin.kind
         /\ event.kind \in {"Started", "Ongoing", "Ended", "Idle"}
    /\ call.op = "stop_all" => event.kind = "Stopped"

\* A sighting ended by a call whose STOP_ALERT write raised.
C13_Witness ==
    /\ call.op = "handle_detection"
    /\ tx = Raised
    /\ event.kind = "Ended"
    /\ ~monkey_present

\* The events of a trail, by kind.
Kinds(events) == [i \in 1..Len(events) |-> events[i].kind]

\* C19: with min_gap_frames = 3, the calls T,T,F,F,F,T made from the fresh
\* state report Started (count 1), Ongoing, Idle (run 1), Idle (run 2), Ended,
\* Started (count 2), and leave detection_count = 2.
C19_ReappearAfterGap ==
    (min_gap_frames = 3 /\ trail.on /\ trail.inputs = ReappearAfterGap) =>
        /\ Kinds(trail.events) =
             <<"Started", "Ongoing", "Idle", "Idle", "Ended", "Started">>
        /\ trail.events[1].count = 1
        /\ trail.events[3].frames = 1
        /\ trail.events[4].frames = 2
        /\ trail.events[6].count = 2
        /\ detection_count = 2

\* The scenario run to its end.
C19_Witness ==
    /\ min_gap_frames = 3
    /\ trail.on /\ trail.inputs = ReappearAfterGap
    /\ call.op = "handle_detection"

\* The positions of a trail's events of one kind.
Positions(events, kind) == {i \in 1..Len(events) : events[i].kind = kind}

\* C20 as stated: with min_gap_frames = 3 and the calls T,F,F,T,F,F,F,F from
\* the fresh state, no Ended is reported before the 4th consecutive F after
\* the second T (the 8th call); one Started and one Ended in the whole run.
C20_EndedAtFourthMiss ==
    (min_gap_frames = 3 /\ trail.on /\ IsPrefix(trail.inputs, FlickerThenLeave)) =>
        /\ \A i \in Positions(trail.events, "Ended") : i >= 8
        /\ trail.inputs = FlickerThenLeave =>
             /\ Positions(trail.events, "Started") = {1}
             /\ Cardinality(Positions(trail.events, "Ended")) = 1
             /\ detection_count = 1

\* C20: with min_gap_frames = 3 and the calls T,F,F,T,F,F,F,F from the fresh
\* state, Ended is reported by the 3rd consecutive F after the second T (the
\* 7th call) and by no other call; the 8th call reports Idle; Started is
\* reported by the first call only and detection_count stays 1.
C20_EndedAtThirdMiss ==
    (min_gap_frames = 3 /\ trail.on /\ IsPrefix(trail.inputs, FlickerThenLeave)) =>
        /\ Positions(trail.events, "Ended") \subseteq {7}
        /\ Positions(trail.events, "Started") \subseteq {1}
        /\ trail.inputs = FlickerThenLeave =>
             /\ Kinds(trail.events) = <<"Started", "Idle", "Idle", "Ongoing",
                                        "Idle", "Idle", "Ended", "Idle">>
             /\ detection_count = 1

\* The scenario run to its end.
C20_Witness ==
    /\ min_gap_frames = 3
    /\ trail.on /\ trail.inputs = FlickerThenLeave
    /\ event.kind = "Idle"
    /\ no_detection_frames = 4

\* C18: two copies of the debouncer started from the same state and fed the
\* same sequence of `detected` flags, with confidences and time.time() values
\* of their own, have the same monkey_present, no_detection_frames and
\* detection_count after every call and report the same kind of event; only
\* detection_start_time and the confidence shown may differ.
C18_FlagsAloneDecide ==
    /\ <<twin.present, twin.frames, twin.count>> =
         <<monkey_present, no_detection_frames, detection_count>>
    /\ call.op = "handle_detection" => twin.kind = event.kind

\* The same sighting tracked by the two copies at different confidences,
\* after they counted it at different times.
C18_Witness ==
    /\ call.op = "handle_detection"
    /\ event.kind = "Ongoing"
    /\ call.confidence = 90 /\ twin.confidence = 60
    /\ twin.start # detection_start_time
    /\ detection_count = 2

\* C14: a poll cycle in which camera.read() fails or the detector raises
\* posts no detection_result and leaves monkey_present, no_detection_frames,
\* detection_count and detection_start_time as they were; no handle_detection
\* call is made in it.
C14_FailedCycleIsSilent ==
    [][call'.op \in {"no_frame", "detector_error"} =>
         UNCHANGED <<queue, deb, run, edges>>
      ]_vars

\* The detector raising in the middle of a sighting, nothing being queued.
C14_Witness ==
    /\ call.op = "detector_error"
    /\ monkey_present
    /\ no_detection_frames = 0
    /\ queue = <<>>

\* C15: the signal emitted for a processed frame has detected = True iff some
\* box of the frame has a confidence strictly above the worker's threshold;
\* its confidence is the largest confidence among those boxes, and 0 when
\* there is none; the cycle posts exactly one signal.
C15_SignalReducesFrame ==
    call.op = "emit" =>
        LET boxes == scan.boxes
            above == {i \in 1..Len(boxes) : boxes[i] > scan.threshold}
            sig == queue[Len(queue)]
        IN  /\ Len(queue) = scan.queued + 1
            /\ sig.detected <=> above # {}
            /\ above = {} => sig.confidence = 0
            /\ above # {} =>
                 /\ \E i \in above : sig.confidence = boxes[i]
                 /\ \A i \in above : boxes[i] <= sig.confidence
            /\ <<call.detected, call.confidence>> = <<sig.detected, sig.confidence>>

\* A frame whose strongest box comes first and whose second box only equals
\* the threshold.
C15_Witness ==
    /\ call.op = "emit"
    /\ scan.threshold = DefaultSlider
    /\ scan.boxes = <<90, DefaultSlider>>
    /\ queue = <<[detected |-> TRUE, confidence |-> 90]>>

\* The workers that are inside their polling loop.
Polling == {t \in ThreadIds : threads[t].pc \in {"check", "cycle"}}

\* C16 as stated: at most one worker is polling at any time.
C16_SingleProducer == Cardinality(Polling) <= 1

\* C17 as stated: while detection is stopped no handle_detection call is made
\* and no MONKEY_DETECTED is written.
C17_NoCallAfterStop ==
    ~detection_active => (call.op # "handle_detection" /\ tx # CmdDetected)

\* C21: the specified two-state machine, fed the flags handle_detection is
\* called with (from the state the session started in), agrees with the
\* object after every call on present / absent, on the sighting count and on
\* the kind of event; its absence counter is not compared.
C21_RefinesMachine ==
    /\ mach.present = monkey_present
    /\ mach.count = detection_count
    /\ call.op = "handle_detection" => mach.kind = event.kind

\* After a sighting ended and one more frame was missed, the machine's counter
\* restarted from 0 while no_detection_frames went on counting.
C21_Witness ==
    /\ call.op = "handle_detection"
    /\ event.kind = "Idle"
    /\ ~monkey_present
    /\ detection_count = 1
    /\ mach.run = 1
    /\ no_detection_frames = min_gap_frames + 1

\* C22 as stated: right after the handle_detection call that ends a sighting,
\* monkey_present is False and no_detection_frames is 0.
C22_EndResetsCounter ==
    (call.op = "handle_detection" /\ event.kind = "Ended") =>
        (~monkey_present /\ no_detection_frames = 0)

\* C22: right after the handle_detection call that ends a sighting,
\* monkey_present is False and no_detection_frames is left at the value that
\* ended it, min_gap_frames.
C22_EndKeepsCounter ==
    (call.op = "handle_detection" /\ event.kind = "Ended") =>
        (~monkey_present /\ no_detection_frames = min_gap_frames)

\* A sighting ended by the 30th missed frame.
C22_Witness ==
    /\ call.op = "handle_detection"
    /\ event.kind = "Ended"
    /\ min_gap_frames = DefaultGapFrames
    /\ no_detection_frames = DefaultGapFrames

\* C23: no_detection_frames and detection_count are never negative, and while
\* monkey_present is True, no_detection_frames < min_gap_frames and
\* detection_count >= 1.
C23_StateInvariant ==
    /\ no_detection_frames >= 0
    /\ detection_count >= 0
    /\ monkey_present => (no_detection_frames < min_gap_frames /\ detection_count >= 1)

\* A subject one missed frame away from being taken for gone.
C23_Witness ==
    /\ call.op = "handle_detection"
    /\ monkey_present
    /\ min_gap_frames = MaxGap
    /\ no_detection_frames = min_gap_frames - 1

\* C25 as stated: no MONKEY_DETECTED is written while the last alert command
\* written was a MONKEY_DETECTED (every write in between having succeeded).
C25_NoSecondActivation ==
    [][tx' = CmdDetected => ~alert]_vars

\* C27: a start_detection call that is rejected (no model, or no open camera)
\* leaves detection_active, the four debouncer fields, the workers and the
\* signal queue as they were.
C27_RejectedStartChangesNothing ==
    [][call'.op = "start_detection_rejected" =>
         UNCHANGED <<detection_active, deb, wrk>>
      ]_vars

\* Start Detection pressed during a sighting, after the camera failed to reopen.
C27_Witness ==
    /\ call.op = "start_detection_rejected"
    /\ detection_active
    /\ monkey_present
    /\ model

\* C29: in monkey_detection_gui a handle_detection call counts (detection_count
\* + 1, last_detection_time = now, MONKEY_DETECTED written when the Arduino is
\* connected) exactly when detected is True and now - last_detection_time is
\* strictly greater than alert_cooldown, and otherwise changes neither field
\* and writes nothing; any two counted detections are more than the cooldown
\* in force at the later one apart; the first detected call after construction
\* is counted; a detected=False call changes nothing.
C29_CooldownCounting ==
    [][mdg'.call.op = "handle_detection" =>
         LET now == mdg'.call.now
             due == mdg'.call.detected /\ now - mdg.last_detection_time > mdg.alert_cooldown
             stamps == mdg'.stamps
         IN  /\ due =>
                   /\ mdg'.detection_count = mdg.detection_count + 1
                   /\ mdg'.last_detection_time = now
                   /\ ~MdgLinked(mdg) => mdg'.tx = NoCmd
                   /\ MdgLinked(mdg) => mdg'.tx \in {CmdDetected, Raised}
             /\ ~due =>
                   /\ mdg'.detection_count = mdg.detection_count
                   /\ mdg'.last_detection_time = mdg.last_detection_time
                   /\ mdg'.tx = NoCmd
             /\ \A i, j \in 1..Len(stamps) :
                   i < j => stamps[j].at - stamps[i].at > stamps[j].cooldown
             /\ Len(stamps) = mdg'.detection_count
             /\ (mdg'.call.detected /\ mdg.detection_count = 0) => mdg'.detection_count = 1
             /\ ~mdg'.call.detected =>
                   [mdg' EXCEPT !.call = mdg.call, !.tx = mdg.tx] = mdg
    ]_vars

\* C29 witness: two detections were counted exactly alert_cooldown + 1 seconds
\* apart under the default cooldown, the second one with a MONKEY_DETECTED
\* written.
C29_Witness ==
    /\ mdg.call.op = "handle_detection" /\ mdg.call.detected
    /\ mdg.detection_count = 2
    /\ mdg.alert_cooldown = DefaultCooldown
    /\ mdg.stamps[2].at - mdg.stamps[1].at = DefaultCooldown + 1
    /\ mdg.last_detection_time = mdg.call.now
    /\ mdg.tx = CmdDetected

\* C30 (as stated): whenever closeEvent has run it completed: it did not raise,
\* the camera, if there was one, is released, the Arduino port, if there was
\* one, is closed, and the close event is accepted.
C30_CloseCompletes ==
    mdg.call.op = "closeEvent" =>
        /\ mdg.outcome = "accepted"
        /\ mdg.camera \in {"None", "released"}
        /\ mdg.arduino \in {"None", "closed"}

\* C28: every frame a worker reduces is judged against the value
\* confidence_threshold had when start_detection created that worker (pinned),
\* whatever update_confidence has made of the GUI field since: the signal says
\* detected exactly when some box's confidence is above the pinned value.
C28_ThresholdPinnedAtStart ==
    call.op = "emit" =>
        /\ scan.threshold = pinned
        /\ call.detected <=> \E i \in 1..Len(scan.boxes) : scan.boxes[i] > pinned

\* C28 witness: the slider was moved from 0.50 down to 0.30 while the session
\* runs, and a frame whose only box has confidence 0.50 is reported as no
\* detection.
C28_Witness ==
    /\ call.op = "emit" /\ ~call.detected
    /\ detection_active
    /\ pinned = DefaultSlider /\ confidence_threshold < pinned
    /\ scan.boxes = <<DefaultSlider>>

\* C26: once stop_all has cleared detection_active and called stop(), no
\* worker begins another poll cycle (it finishes at most the one in progress),
\* and the wait() always returns: stop_all completes.
C26_StopAllCompletes ==
    /\ [][waiting => \A t \in ThreadIds :
                        threads[t].pc # "cycle" => threads'[t].pc # "cycle"]_vars
    /\ waiting ~> ~waiting

\* C26 witness: stop_all has returned from a wait() that began while the
\* worker was in the middle of a poll cycle, whose signal is still queued.
C26_Witness ==
    /\ call.op = "stop_all" /\ ~waiting
    /\ detection_thread # 0
    /\ threads[detection_thread].pc = "done"
    /\ queue # <<>>

\* A frame has just yielded a detection, or a serial write has just failed.
Disturbed == (call.op = "emit" /\ call.detected) \/ tx = Raised

\* The sighting has just ended, and STOP_ALERT was written if the Arduino is
\* connected.
Gone == ~monkey_present /\ event.kind = "Ended" /\ (Linked => tx = CmdStop)

\* C24: in a session that stays active, with a worker that keeps polling and
\* signals that keep being delivered, every state with monkey_present = True
\* is followed by the end of the sighting (monkey_present = False, STOP_ALERT
\* written when the Arduino is connected) unless a frame yields a detection
\* again first: once no frame yields a detection any more, the alert stops.
C24_AlertEventuallyStops == monkey_present ~> (Gone \/ Disturbed)

\* C24 witness: with the Arduino connected, a sighting has ended by a signal
\* of the worker and STOP_ALERT was written, the session being still active.
C24_Witness ==
    /\ detection_active /\ Linked
    /\ call.op = "handle_detection" /\ ~call.detected
    /\ event.kind = "Ended" /\ tx = CmdStop /\ ~monkey_present /\ ~alert
    /\ no_detection_frames = MaxGap - 1
====
